---- MODULE Spec2Model ----
(***************************************************************************)
(* Model of ytdownload.services.downloader.DownloadManager together with   *)
(* the threads that drive it: the presentation (UI) thread that calls      *)
(* add_task and cancel_download, the AsyncExecutor thread whose event loop *)
(* runs start_downloads and the download_video coroutines, the worker      *)
(* threads in which the media backend runs and fires its progress hooks,   *)
(* and the transcript synthetic-progress threads.                          *)
(*                                                                         *)
(* Coroutines of one event loop are scheduled cooperatively: a coroutine   *)
(* keeps the loop from its resumption to its next suspending await, so its *)
(* steps are never interleaved with steps of another coroutine, but they   *)
(* are interleaved with the steps of the other threads.                    *)
(***************************************************************************)
EXTENDS Integers, Sequences, FiniteSets, TLC

(* ------------------------------ bounds --------------------------------- *)
\* number of DownloadTask objects the UI thread may submit
NTasks == 2
\* number of distinct video ids the tasks draw from
NIds == 2
\* largest max_concurrent_downloads the manager is constructed with
MaxConcurrent == 2
\* progress hooks the backend fires per transfer
MaxHooks == 1
\* byte counters reported by a hook range over 0..MaxBytes
MaxBytes == 2

\* the videos selected for the download_selected of SpecBridge
MaxBatch == 1

\* the files in the destination directory when a transcript is verified
MaxFiles == 2
\* cancel_download calls made by the UI thread
MaxCancels == 1

Tasks == 1..NTasks
Ids == 1..NIds
\* DownloadType
Kinds == {"VIDEO", "AUDIO", "TRANSCRIPT"}
\* Video and audio tasks differ only in the options handed to the backend
\* (lines 147-159) and in the destination directory (lines 339-342), so the
\* batches submitted alternate them: odd tasks are video or transcript tasks,
\* even tasks audio or transcript tasks
KindsOf(t) == IF t % 2 = 1 THEN {"VIDEO", "TRANSCRIPT"} ELSE {"AUDIO", "TRANSCRIPT"}

VARIABLES
    max_concurrent_downloads, \* DownloadManager.max_concurrent_downloads
    semaphore,                \* free permits of DownloadManager.semaphore
    download_queue,           \* DownloadManager.download_queue (task objects)
    active_downloads,         \* DownloadManager.active_downloads (ids)
    download_progress,        \* DownloadManager.download_progress: id -> record object
    records,                  \* the DownloadProgress objects, named by the task whose add_task made them
    task,                     \* the DownloadTask objects
    sd,                       \* frame of the start_downloads coroutine
    dv,                       \* frames of the download_video coroutines
    loop,                     \* coroutine the event loop is executing (0: none)
    ytdl,                     \* the backend call of each task (worker thread)
    tthread,                  \* transcript_progress_updater thread of each task
    ui,                       \* frame of the presentation thread
    cbMayRaise,               \* whether the consumer's progress callback can raise
    mw                        \* MainWindow: progress queue, widgets, counters, mutex

vars == <<max_concurrent_downloads, semaphore, download_queue, active_downloads,
          download_progress, records, task, sd, dv, loop, ytdl, tthread, ui,
          cbMayRaise, mw>>

(* --------------------------- data types -------------------------------- *)
\* DownloadTask before its construction
NoTask == [video_id |-> 0, title |-> 0, download_type |-> "VIDEO", output_path |-> ""]

\* dataclass DownloadProgress with its defaults; the title of task t is t
DownloadProgress(id, title) ==
    [video_id |-> id, title |-> title, progress |-> 0, status |-> "Waiting",
     is_complete |-> FALSE, error |-> "None"]

\* a record object that no add_task has created yet
NoRecord == [video_id |-> 0, title |-> 0, progress |-> 0, status |-> "Waiting",
             is_complete |-> FALSE, error |-> "None"]

\* outcomes of one invocation of the consumer's progress callback
CallbackOutcomes == IF cbMayRaise THEN {"ok", "raise"} ELSE {"ok"}

\* start_downloads: destination directory by kind
OutputPath(kind) ==
    CASE kind = "VIDEO" -> "video"
      [] kind = "AUDIO" -> "audio"
      [] kind = "TRANSCRIPT" -> "transcript"
      [] OTHER -> "."

RemoveAt(s, i) == [j \in 1..(Len(s) - 1) |-> IF j < i THEN s[j] ELSE s[j + 1]]

\* index of the first queued task with this id, 0 if there is none
FirstQueued(id) ==
    LET hits == {i \in 1..Len(download_queue) : task[download_queue[i]].video_id = id}
    IN IF hits = {} THEN 0 ELSE CHOOSE i \in hits : \A j \in hits : i <= j

(* ----------------------------- MainWindow ------------------------------ *)
\* no widget of an id in the list of downloads; DownloadItemWidget.__init__,
\* download_item.py lines 38-47, makes a widget with its three flags down
NoWidget == [exists |-> FALSE, is_completed |-> FALSE, has_error |-> FALSE,
             is_canceled |-> FALSE, cancel_visible |-> FALSE, cancel_enabled |-> FALSE]

\* MainWindow.__init__, lines 131-137: the progress queue is empty, the list
\* of download widgets is empty, the mutex is free; the counters are set by
\* download_selected. posted holds the queued _update_progress_safe calls of
\* the Qt event loop
MainWindowInit ==
    [attached |-> TRUE, progress_queue |-> <<>>, posted |-> <<>>,
     widgets |-> [i \in Ids |-> NoWidget],
     total_downloads |-> 0, completed_downloads |-> 0, error_downloads |-> 0,
     canceled_downloads |-> 0, download_mutex |-> "free"]

\* a manager whose progress callback is looked at through its outcome only:
\* what the consumer does with the records it is handed is left out
Detached == [attached |-> FALSE]

\* MainWindow.handle_download_progress, lines 1219-1230: the record object is
\* put into the queue. emitted keeps the fields it had at that moment and by
\* the caller of the callback (for _progress_hook, the kind of the event)
HandleDownloadProgress(m, r, recs, by) ==
    IF m.attached /\ r # 0
    THEN [m EXCEPT !.progress_queue =
                      Append(@, [ref |-> r, emitted |-> recs[r], by |-> by])]
    ELSE m

(* ------------------------------ Init ----------------------------------- *)
InitManager ==
    /\ max_concurrent_downloads \in 1..MaxConcurrent
    /\ semaphore = max_concurrent_downloads
    /\ download_queue = <<>>
    /\ active_downloads = {}
    /\ download_progress = [i \in Ids |-> 0]
    /\ records = [t \in Tasks |-> NoRecord]
    /\ task = [t \in Tasks |-> NoTask]
    /\ sd = [pc |-> "idle", idx |-> 0, tasks |-> <<>>]
    /\ dv = [t \in Tasks |-> [pc |-> "none", progress |-> 0, exc |-> "None"]]
    /\ loop = 0
    /\ ytdl = [t \in Tasks |-> [state |-> "idle", hooks |-> 0, subtitles |-> FALSE]]
    /\ tthread = [t \in Tasks |-> 0]
    /\ ui = [pc |-> "idle", arg |-> 0, branch |-> "none", ret |-> "None",
             added |-> 0, cancels |-> 0, reports |-> <<>>,
             got |-> <<>>, prev |-> <<>>]

Init == InitManager /\ cbMayRaise = TRUE /\ mw = Detached

(* ----------------------- presentation thread --------------------------- *)
\* add_task, line 104: the task object is appended to the queue
UI_AddTask(t, id, kind) ==
    /\ ui.pc = "idle"
    /\ t = ui.added + 1
    /\ id <= t
    /\ kind \in KindsOf(t)
    /\ task' = [task EXCEPT ![t] = [video_id |-> id, title |-> t,
                                    download_type |-> kind, output_path |-> ""]]
    /\ download_queue' = Append(download_queue, t)
    /\ ui' = [ui EXCEPT !.pc = "add_record", !.arg = t, !.added = t, !.reports = <<>>]
    /\ UNCHANGED <<max_concurrent_downloads, semaphore, active_downloads,
                   download_progress, records, sd, dv, loop, ytdl, tthread, cbMayRaise, mw>>

\* MainWindow.download_selected, lines 1212-1217: the tasks of a batch are
\* submitted before the executor thread is started
DownloadSelected_AddTask(t, id, kind) ==
    /\ sd.pc = "idle"
    /\ UI_AddTask(t, id, kind)

\* UI_AddRecord that keeps the record an id already maps to
UI_AddRecordKeepsFirst ==
    /\ ui.pc = "add_record"
    /\ LET t == ui.arg IN
        IF download_progress[task[t].video_id] = 0
        THEN /\ records' = [records EXCEPT ![t] = DownloadProgress(task[t].video_id, task[t].title)]
             /\ download_progress' = [download_progress EXCEPT ![task[t].video_id] = t]
        ELSE UNCHANGED <<records, download_progress>>
    /\ ui' = [ui EXCEPT !.pc = "add_callback"]
    /\ UNCHANGED <<max_concurrent_downloads, semaphore, download_queue, active_downloads,
                   task, sd, dv, loop, ytdl, tthread, cbMayRaise, mw>>

\* add_task, lines 105-108: a fresh record replaces whatever the id mapped to
UI_AddRecord ==
    /\ ui.pc = "add_record"
    /\ LET t == ui.arg IN
        /\ records' = [records EXCEPT ![t] = DownloadProgress(task[t].video_id, task[t].title)]
        /\ download_progress' = [download_progress EXCEPT ![task[t].video_id] = t]
    /\ ui' = [ui EXCEPT !.pc = "add_callback"]
    /\ UNCHANGED <<max_concurrent_downloads, semaphore, download_queue, active_downloads,
                   task, sd, dv, loop, ytdl, tthread, cbMayRaise, mw>>

\* add_task without lines 110-111: no callback is invoked
UI_AddCallbackSkipped ==
    /\ ui.pc = "add_callback"
    /\ ui' = [ui EXCEPT !.pc = "idle", !.arg = 0]
    /\ UNCHANGED <<max_concurrent_downloads, semaphore, download_queue, active_downloads,
                   download_progress, records, task, sd, dv, loop, ytdl, tthread, cbMayRaise, mw>>

\* add_task, lines 110-111: the callback is invoked unguarded; add_task returns
\* None or ends with the callback's exception, the caller goes on either way.
\* ui.reports lists what the callbacks of the last add_task call were handed
UI_AddCallback ==
    /\ ui.pc = "add_callback"
    /\ \E out \in CallbackOutcomes :
        ui' = [ui EXCEPT !.pc = "idle", !.arg = 0,
                         !.reports = Append(@, records[download_progress[task[ui.arg].video_id]])]
    /\ UNCHANGED <<max_concurrent_downloads, semaphore, download_queue, active_downloads,
                   download_progress, records, task, sd, dv, loop, ytdl, tthread, cbMayRaise>>
    /\ mw' = HandleDownloadProgress(mw, download_progress[task[ui.arg].video_id], records',
                                       "add_task")

\* UI_CancelScan with line 388 left out: the task found in the queue stays there
UI_CancelScanKeepsTask(id) ==
    /\ ui.pc = "idle"
    /\ ui.cancels < MaxCancels
    /\ ui' = IF FirstQueued(id) # 0
             THEN [ui EXCEPT !.pc = "cancel_mark", !.arg = id, !.branch = "queued",
                             !.cancels = @ + 1]
             ELSE IF id \in active_downloads
                  THEN [ui EXCEPT !.pc = "cancel_mark", !.arg = id, !.branch = "active",
                                  !.cancels = @ + 1]
                  ELSE [ui EXCEPT !.pc = "cancel_return", !.arg = id, !.ret = "False",
                                  !.cancels = @ + 1]
    /\ UNCHANGED <<max_concurrent_downloads, semaphore, download_queue, active_downloads,
                   download_progress, records, task, sd, dv, loop, ytdl, tthread, cbMayRaise, mw>>

\* cancel_download, lines 386-388 and 397: the queue scan deletes the first task
\* with this id; when there is none the active set decides
UI_CancelScan(id) ==
    /\ ui.pc = "idle"
    /\ ui.cancels < MaxCancels
    /\ LET i == FirstQueued(id) IN
        IF i # 0
        THEN /\ download_queue' = RemoveAt(download_queue, i)
             /\ ui' = [ui EXCEPT !.pc = "cancel_mark", !.arg = id, !.branch = "queued",
                                 !.cancels = @ + 1]
        ELSE /\ download_queue' = download_queue
             /\ ui' = IF id \in active_downloads
                      THEN [ui EXCEPT !.pc = "cancel_mark", !.arg = id, !.branch = "active",
                                      !.cancels = @ + 1]
                      ELSE [ui EXCEPT !.pc = "cancel_return", !.arg = id, !.ret = "False",
                                      !.cancels = @ + 1]
    /\ UNCHANGED <<max_concurrent_downloads, semaphore, active_downloads,
                   download_progress, records, task, sd, dv, loop, ytdl, tthread, cbMayRaise, mw>>

\* cancel_download, lines 389-394 (queued) and 398-403 (active): mark the record
\* the id maps to, invoke the callback unguarded, return True
UI_CancelMark ==
    /\ ui.pc = "cancel_mark"
    /\ LET r == download_progress[ui.arg]
           label == IF ui.branch = "queued" THEN "Canceled" ELSE "Canceling"
       IN IF r # 0
          THEN /\ records' = [records EXCEPT ![r].status = label]
               /\ \E out \in CallbackOutcomes :
                    ui' = [ui EXCEPT !.pc = "cancel_return",
                                     !.ret = IF out = "ok" THEN "True" ELSE "raised"]
          ELSE /\ records' = records
               /\ ui' = [ui EXCEPT !.pc = "cancel_return", !.ret = "True"]
    /\ UNCHANGED <<max_concurrent_downloads, semaphore, download_queue, active_downloads,
                   download_progress, task, sd, dv, loop, ytdl, tthread, cbMayRaise>>
    /\ mw' = HandleDownloadProgress(mw, download_progress[ui.arg], records',
                                       "cancel_download")

\* MainWindow.cancel_download, line 1310: the result is dropped and the
\* presentation thread goes back to its event loop
UI_CancelReturn ==
    /\ ui.pc = "cancel_return"
    /\ ui' = [ui EXCEPT !.pc = "idle", !.arg = 0, !.branch = "none", !.ret = "None"]
    /\ UNCHANGED <<max_concurrent_downloads, semaphore, download_queue, active_downloads,
                   download_progress, records, task, sd, dv, loop, ytdl, tthread, cbMayRaise, mw>>

(* ------------------- executor thread: start_downloads ------------------ *)
\* MainWindow.download_selected creates the coroutine and starts the
\* AsyncExecutor thread after its add_tasks call has returned
SD_Start ==
    /\ sd.pc = "idle"
    /\ ui.pc = "idle"
    /\ sd' = [sd EXCEPT !.pc = "iterate"]
    /\ UNCHANGED <<max_concurrent_downloads, semaphore, download_queue, active_downloads,
                   download_progress, records, task, dv, loop, ytdl, tthread, ui, cbMayRaise, mw>>

\* start_downloads, lines 337-349: one turn of the for loop over the live list
SD_Iterate ==
    /\ sd.pc = "iterate"
    /\ IF sd.idx < Len(download_queue)
       THEN LET t == download_queue[sd.idx + 1] IN
            /\ task' = [task EXCEPT ![t].output_path = OutputPath(task[t].download_type)]
            /\ sd' = [sd EXCEPT !.idx = @ + 1, !.tasks = Append(@, t)]
       ELSE /\ task' = task
            /\ sd' = [sd EXCEPT !.pc = "clear"]
    /\ UNCHANGED <<max_concurrent_downloads, semaphore, download_queue, active_downloads,
                   download_progress, records, dv, loop, ytdl, tthread, ui, cbMayRaise, mw>>

\* SD_ClearAndGather with line 351 left out: the queue keeps the tasks taken
SD_GatherOnly ==
    /\ sd.pc = "clear"
    /\ dv' = [t \in Tasks |->
                IF \E i \in 1..Len(sd.tasks) : sd.tasks[i] = t
                THEN [dv[t] EXCEPT !.pc = "ready"] ELSE dv[t]]
    /\ sd' = [sd EXCEPT !.pc = "gather"]
    /\ UNCHANGED <<max_concurrent_downloads, semaphore, download_queue, active_downloads,
                   download_progress, records, task, loop, ytdl, tthread, ui, cbMayRaise, mw>>

\* start_downloads, lines 351-352: clear the queue, gather schedules every coroutine
SD_ClearAndGather ==
    /\ sd.pc = "clear"
    /\ download_queue' = <<>>
    /\ dv' = [t \in Tasks |->
                IF \E i \in 1..Len(sd.tasks) : sd.tasks[i] = t
                THEN [dv[t] EXCEPT !.pc = "ready"] ELSE dv[t]]
    /\ sd' = [sd EXCEPT !.pc = "gather"]
    /\ UNCHANGED <<max_concurrent_downloads, semaphore, active_downloads,
                   download_progress, records, task, loop, ytdl, tthread, ui, cbMayRaise, mw>>

Drained == {sd.tasks[i] : i \in 1..Len(sd.tasks)}

\* gather (line 352) wraps the coroutines in tasks in list order and each task's
\* first step enters the loop's FIFO ready queue at once, ahead of every
\* callback a later event enqueues: the first scheduled coroutine that has not
\* begun, 0 when all have
FirstReady ==
    LET pending == {i \in 1..Len(sd.tasks) : dv[sd.tasks[i]].pc = "ready"}
    IN IF pending = {} THEN 0
       ELSE sd.tasks[CHOOSE i \in pending : \A j \in pending : i <= j]

\* asyncio.gather without return_exceptions: the awaiting coroutine resumes when
\* every child is done, or with the exception of a child as soon as one raised;
\* AsyncExecutor.run then leaves run_until_complete and the loop runs no more
SD_Finish ==
    /\ sd.pc = "gather"
    /\ loop = 0
    /\ FirstReady = 0
    /\ \/ /\ \E t \in Drained : dv[t].pc = "escaped"
          /\ sd' = [sd EXCEPT !.pc = "raised"]
       \/ /\ \A t \in Drained : dv[t].pc = "done"
          /\ sd' = [sd EXCEPT !.pc = "returned"]
    /\ UNCHANGED <<max_concurrent_downloads, semaphore, download_queue, active_downloads,
                   download_progress, records, task, dv, loop, ytdl, tthread, ui, cbMayRaise, mw>>

(* ------------------------ progress reporting --------------------------- *)
\* _update_progress, lines 416-430: the record the id maps to now gets the
\* percentage and the status; the callback is invoked inside try/except, so
\* its failure changes nothing
UpdateProgress(recs, id, percent, status) ==
    LET r == download_progress[id] IN
    IF r # 0
    THEN [recs EXCEPT ![r].progress = percent, ![r].status = status]
    ELSE recs

\* a key the hook dictionary does not hold, and a key it holds with the value
\* None
Absent == -2

Null == -1

\* lines 296 and 302: the comparison of None with 0 raises TypeError; the
\* estimate is compared only when the total is missing or not positive
HookRaises(d) ==
    \/ d.total = Null
    \/ d.total \in {Absent, 0} /\ d.estimate = Null

\* the hook dictionaries the backend passes: downloaded_bytes, total_bytes and
\* total_bytes_estimate, each a byte count, None or missing. Dictionaries that
\* differ only in a key the hook does not read are listed once: the estimate
\* is missing beside a positive total, and downloaded_bytes is 0 (what a
\* missing count reads as, lines 297 and 303) where no ratio is computed
HookEvents ==
    {d \in [status : {"downloading"}, downloaded : {Null} \cup (0..MaxBytes),
            total : {Absent, Null} \cup (0..MaxBytes),
            estimate : {Absent, Null} \cup (0..MaxBytes)] :
        /\ d.total > 0 => d.estimate = Absent
        /\ (HookRaises(d) \/ (~(d.total > 0) /\ ~(d.estimate > 0))) => d.downloaded = 0}
    \cup [status : {"finished", "error"}, downloaded : {0}, total : {0}, estimate : {0}]

\* lines 297-301 and 303-307: d.get('downloaded_bytes', 0) over the total; a
\* None count leaves the percent as it is
HookPercent(d, total, old) ==
    IF d.downloaded = Null THEN old
    ELSE (d.downloaded * 100) \div total

\* the kind of a hook event: a 'downloading' event without a positive total
\* and without a positive estimate, or the status of the event
HookClass(d) ==
    IF d.status = "downloading" /\ ~(d.total > 0) /\ ~(d.estimate > 0)
    THEN "no total" ELSE d.status

\* _progress_hook with a percent that falls back to 0 when no total is known
ProgressHookZeroWithoutTotal(recs, id, d) ==
    LET r == download_progress[id] IN
    IF r = 0 THEN recs
    ELSE CASE d.status = "downloading" ->
                [recs EXCEPT
                    ![r].progress = IF d.total > 0 THEN HookPercent(d, d.total, @)
                                    ELSE IF d.estimate > 0
                                         THEN HookPercent(d, d.estimate, @)
                                         ELSE 0,
                    ![r].status = "Downloading (%)"]
           [] d.status = "finished" ->
                [recs EXCEPT ![r].status = "Processing", ![r].progress = 95]
           [] d.status = "error" ->
                [recs EXCEPT ![r].status = "Error", ![r].error = "Unknown error"]
           [] OTHER -> recs

\* _progress_hook, lines 289-332; percentages are kept as whole numbers
ProgressHook(recs, id, d) ==
    LET r == download_progress[id] IN
    IF r = 0 THEN recs
    ELSE CASE d.status = "downloading" ->
                IF HookRaises(d)
                THEN [recs EXCEPT ![r].status = "Downloading..."]
                ELSE [recs EXCEPT
                        ![r].progress = IF d.total > 0 THEN HookPercent(d, d.total, @)
                                        ELSE IF d.estimate > 0
                                             THEN HookPercent(d, d.estimate, @)
                                             ELSE @,
                        ![r].status = "Downloading (%)"]
           [] d.status = "finished" ->
                [recs EXCEPT ![r].status = "Processing", ![r].progress = 95]
           [] d.status = "error" ->
                [recs EXCEPT ![r].status = "Error", ![r].error = "Unknown error"]
           [] OTHER -> recs

(* ------------------ executor thread: download_video -------------------- *)
\* lines 130-135: the coroutine starts, takes the record its id maps to (a
\* missing key raises KeyError), labels it and invokes the callback, all of it
\* before the try block
DV_Begin(t) ==
    /\ sd.pc = "gather"
    /\ loop = 0
    /\ t = FirstReady
    /\ LET r == download_progress[task[t].video_id] IN
        IF r = 0
        THEN /\ dv' = [dv EXCEPT ![t].pc = "escaped", ![t].exc = "KeyError"]
             /\ UNCHANGED <<records, loop>>
        ELSE /\ records' = [records EXCEPT ![r].status = "Downloading"]
             /\ \E out \in CallbackOutcomes :
                 IF out = "ok"
                 THEN /\ dv' = [dv EXCEPT ![t].pc = "acquire", ![t].progress = r]
                      /\ loop' = t
                 ELSE /\ dv' = [dv EXCEPT ![t].pc = "escaped", ![t].progress = r,
                                          ![t].exc = "callback"]
                      /\ loop' = 0
    /\ UNCHANGED <<max_concurrent_downloads, semaphore, download_queue, active_downloads,
                   download_progress, task, sd, ytdl, tthread, ui, cbMayRaise>>
    /\ mw' = HandleDownloadProgress(mw, download_progress[task[t].video_id], records',
                                       "download_video")

\* DV_Acquire with a gate that never closes: the permit is taken whether or not
\* one is free
DV_AcquireUngated(t) ==
    /\ dv[t].pc = "acquire"
    /\ semaphore' = semaphore - 1
    /\ active_downloads' = active_downloads \cup {task[t].video_id}
    /\ dv' = [dv EXCEPT ![t].pc = "starting"]
    /\ UNCHANGED <<max_concurrent_downloads, download_queue, download_progress, records,
                   task, sd, loop, ytdl, tthread, ui, cbMayRaise, mw>>

\* lines 169-170: async with self.semaphore; with no free permit the coroutine
\* suspends and the loop is free for the others
DV_Acquire(t) ==
    /\ dv[t].pc = "acquire"
    /\ IF semaphore > 0
       THEN /\ semaphore' = semaphore - 1
            /\ active_downloads' = active_downloads \cup {task[t].video_id}
            /\ dv' = [dv EXCEPT ![t].pc = "starting"]
            /\ loop' = loop
       ELSE /\ dv' = [dv EXCEPT ![t].pc = "waiting"]
            /\ loop' = 0
            /\ UNCHANGED <<semaphore, active_downloads>>
    /\ UNCHANGED <<max_concurrent_downloads, download_queue, download_progress, records,
                   task, sd, ytdl, tthread, ui, cbMayRaise, mw>>

\* lines 169-170: a waiter is resumed once a permit has been released
DV_Wake(t) ==
    /\ sd.pc = "gather"
    /\ loop = 0
    /\ FirstReady = 0
    /\ dv[t].pc = "waiting"
    /\ semaphore > 0
    /\ semaphore' = semaphore - 1
    /\ active_downloads' = active_downloads \cup {task[t].video_id}
    /\ dv' = [dv EXCEPT ![t].pc = "starting"]
    /\ loop' = t
    /\ UNCHANGED <<max_concurrent_downloads, download_queue, download_progress, records,
                   task, sd, ytdl, tthread, ui, cbMayRaise, mw>>

\* line 173, and for video and audio line 199: report the start, hand the
\* transfer to a worker thread and suspend
DV_Starting(t) ==
    /\ dv[t].pc = "starting"
    /\ records' = UpdateProgress(records, task[t].video_id, 10, "Starting download...")
    /\ IF task[t].download_type = "TRANSCRIPT"
       THEN /\ dv' = [dv EXCEPT ![t].pc = "fetching"]
            /\ UNCHANGED <<ytdl, loop>>
       ELSE /\ dv' = [dv EXCEPT ![t].pc = "transfer"]
            /\ ytdl' = [ytdl EXCEPT ![t].state = "running"]
            /\ loop' = 0
    /\ UNCHANGED <<max_concurrent_downloads, semaphore, download_queue, active_downloads,
                   download_progress, task, sd, tthread, ui, cbMayRaise>>
    /\ mw' = HandleDownloadProgress(mw, download_progress[task[t].video_id], records',
                                       "_update_progress")

\* lines 176-199 of a transcript task: report, start the synthetic-progress
\* thread, hand the backend call to a worker thread and suspend
DV_Fetching(t) ==
    /\ dv[t].pc = "fetching"
    /\ records' = UpdateProgress(records, task[t].video_id, 25, "Fetching transcript...")
    /\ tthread' = [tthread EXCEPT ![t] = 1]
    /\ ytdl' = [ytdl EXCEPT ![t].state = "running"]
    /\ dv' = [dv EXCEPT ![t].pc = "transfer"]
    /\ loop' = 0
    /\ UNCHANGED <<max_concurrent_downloads, semaphore, download_queue, active_downloads,
                   download_progress, task, sd, ui, cbMayRaise>>
    /\ mw' = HandleDownloadProgress(mw, download_progress[task[t].video_id], records',
                                       "_update_progress")

\* DV_Resume whose exception path leaves async with without releasing the
\* permit
DV_ResumeKeepsPermit(t, outcome, wrote) ==
    /\ sd.pc = "gather"
    /\ loop = 0
    /\ FirstReady = 0
    /\ dv[t].pc = "transfer"
    /\ ytdl[t].state \in {"running", "failing"}
    /\ ytdl[t].state = "failing" => outcome = "raised"
    /\ wrote => (outcome = "returned" /\ task[t].download_type = "TRANSCRIPT")
    /\ ytdl' = [ytdl EXCEPT ![t].state = outcome, ![t].subtitles = wrote]
    /\ loop' = t
    /\ dv' = IF outcome = "raised"
             THEN [dv EXCEPT ![t].pc = "except", ![t].exc = "transfer"]
             ELSE [dv EXCEPT ![t].pc = IF task[t].download_type = "TRANSCRIPT"
                                       THEN "verify" ELSE "complete"]
    /\ UNCHANGED <<max_concurrent_downloads, semaphore, download_queue, active_downloads,
                   download_progress, records, task, sd, tthread, ui, cbMayRaise, mw>>

\* lines 199-202 and 261-263: the backend call ends in its worker thread and
\* the coroutine is resumed with the outcome: YoutubeDL(...).download returned
\* (a transcript request may or may not have left a subtitle file behind), or it
\* raised; ignoreerrors is not set, so a download the backend reported as failed
\* ends in an exception. The exception is re-raised through async with, which
\* releases the permit
DV_Resume(t, outcome, wrote) ==
    /\ sd.pc = "gather"
    /\ loop = 0
    /\ FirstReady = 0
    /\ dv[t].pc = "transfer"
    /\ ytdl[t].state \in {"running", "failing"}
    /\ ytdl[t].state = "failing" => outcome = "raised"
    /\ wrote => (outcome = "returned" /\ task[t].download_type = "TRANSCRIPT")
    /\ ytdl' = [ytdl EXCEPT ![t].state = outcome, ![t].subtitles = wrote]
    /\ loop' = t
    /\ IF outcome = "raised"
       THEN /\ semaphore' = semaphore + 1
            /\ dv' = [dv EXCEPT ![t].pc = "except", ![t].exc = "transfer"]
       ELSE /\ semaphore' = semaphore
            /\ dv' = [dv EXCEPT ![t].pc = IF task[t].download_type = "TRANSCRIPT"
                                          THEN "verify" ELSE "complete"]
    /\ UNCHANGED <<max_concurrent_downloads, download_queue, active_downloads,
                   download_progress, records, task, sd, tthread, ui, cbMayRaise, mw>>

\* lines 259-263: the exception of line 260, wrapped by the f-string of line 263
NoTranscriptError ==
    "Failed to download transcript: No transcript was available for this video"

\* lines 205-263 of a transcript task: report, then look for a subtitle file
DV_Verify(t) ==
    /\ dv[t].pc = "verify"
    /\ records' = UpdateProgress(records, task[t].video_id, 90, "Verifying transcript...")
    /\ IF ytdl[t].subtitles
       THEN /\ dv' = [dv EXCEPT ![t].pc = "complete"]
            /\ semaphore' = semaphore
       ELSE /\ dv' = [dv EXCEPT ![t].pc = "except", ![t].exc = NoTranscriptError]
            /\ semaphore' = semaphore + 1
    /\ UNCHANGED <<max_concurrent_downloads, download_queue, active_downloads,
                   download_progress, task, sd, loop, ytdl, tthread, ui, cbMayRaise>>
    /\ mw' = HandleDownloadProgress(mw, download_progress[task[t].video_id], records',
                                       "_update_progress")

\* DV_Complete with the release placed after the callback instead of in the
\* exit of async with: a raising callback skips it
DV_CompleteReleaseSkipped(t) ==
    /\ dv[t].pc = "complete"
    /\ records' = [records EXCEPT ![dv[t].progress].is_complete = TRUE,
                                  ![dv[t].progress].progress = 100,
                                  ![dv[t].progress].status = "Complete"]
    /\ \E out \in CallbackOutcomes :
        /\ semaphore' = IF out = "ok" THEN semaphore + 1 ELSE semaphore
        /\ dv' = [dv EXCEPT ![t].pc = IF out = "ok" THEN "finally" ELSE "except",
                            ![t].exc = IF out = "ok" THEN "None" ELSE "callback"]
    /\ UNCHANGED <<max_concurrent_downloads, download_queue, active_downloads,
                   download_progress, task, sd, loop, ytdl, tthread, ui, cbMayRaise>>
    /\ mw' = HandleDownloadProgress(mw, dv[t].progress, records',
                                       "download_video")

\* lines 265-270, on the record taken at line 131, then the end of the async
\* with block: the permit is released whether the callback returned or raised
\* into the handler of line 272
DV_Complete(t) ==
    /\ dv[t].pc = "complete"
    /\ records' = [records EXCEPT ![dv[t].progress].is_complete = TRUE,
                                  ![dv[t].progress].progress = 100,
                                  ![dv[t].progress].status = "Complete"]
    /\ semaphore' = semaphore + 1
    /\ \E out \in CallbackOutcomes :
        dv' = [dv EXCEPT ![t].pc = IF out = "ok" THEN "finally" ELSE "except",
                         ![t].exc = IF out = "ok" THEN "None" ELSE "callback"]
    /\ UNCHANGED <<max_concurrent_downloads, download_queue, active_downloads,
                   download_progress, task, sd, loop, ytdl, tthread, ui, cbMayRaise>>
    /\ mw' = HandleDownloadProgress(mw, dv[t].progress, records',
                                       "download_video")

\* DV_Except with line 274 left out: the status says "Error" and no failure is
\* recorded
DV_ExceptUnrecorded(t) ==
    /\ dv[t].pc = "except"
    /\ records' = [records EXCEPT ![dv[t].progress].status = "Error"]
    /\ \E out \in CallbackOutcomes :
        dv' = [dv EXCEPT ![t].pc = "finally",
                         ![t].exc = IF out = "ok" THEN "None" ELSE "callback"]
    /\ UNCHANGED <<max_concurrent_downloads, semaphore, download_queue, active_downloads,
                   download_progress, task, sd, loop, ytdl, tthread, ui, cbMayRaise>>
    /\ mw' = HandleDownloadProgress(mw, dv[t].progress, records',
                                       "download_video")

\* lines 272-277: the handler records str(e) and invokes the callback unguarded
DV_Except(t) ==
    /\ dv[t].pc = "except"
    /\ records' = [records EXCEPT ![dv[t].progress].error = dv[t].exc,
                                  ![dv[t].progress].status = "Error"]
    /\ \E out \in CallbackOutcomes :
        dv' = [dv EXCEPT ![t].pc = "finally",
                         ![t].exc = IF out = "ok" THEN "None" ELSE "callback"]
    /\ UNCHANGED <<max_concurrent_downloads, semaphore, download_queue, active_downloads,
                   download_progress, task, sd, loop, ytdl, tthread, ui, cbMayRaise>>
    /\ mw' = HandleDownloadProgress(mw, dv[t].progress, records',
                                       "download_video")

\* lines 278-279: discard the id; the coroutine ends, with the exception of the
\* handler's callback if there was one
DV_Finally(t) ==
    /\ dv[t].pc = "finally"
    /\ active_downloads' = active_downloads \ {task[t].video_id}
    /\ dv' = [dv EXCEPT ![t].pc = IF dv[t].exc = "None" THEN "done" ELSE "escaped"]
    /\ loop' = 0
    /\ UNCHANGED <<max_concurrent_downloads, semaphore, download_queue, download_progress,
                   records, task, sd, ytdl, tthread, ui, cbMayRaise, mw>>

(* ----------------------------- backend --------------------------------- *)
\* the backend fires a progress hook from its worker thread (line 143); a
\* transcript request transfers nothing and fires none (lines 175, 180-181)
YT_Hook(t, d) ==
    /\ ytdl[t].state = "running"
    /\ ytdl[t].hooks < MaxHooks
    /\ task[t].download_type # "TRANSCRIPT"
    /\ records' = ProgressHook(records, task[t].video_id, d)
    /\ ytdl' = [ytdl EXCEPT ![t].hooks = @ + 1,
                            ![t].state = IF d.status = "error" THEN "failing" ELSE @]
    /\ UNCHANGED <<max_concurrent_downloads, semaphore, download_queue, active_downloads,
                   download_progress, task, sd, dv, loop, tthread, ui, cbMayRaise>>
    /\ mw' = HandleDownloadProgress(mw, download_progress[task[t].video_id], records',
                                       HookClass(d))

(* ------------------- transcript_progress_updater ----------------------- *)
\* lines 183-187
Stages == <<[percent |-> 40, message |-> "Requesting subtitles..."],
            [percent |-> 60, message |-> "Processing transcript..."],
            [percent |-> 80, message |-> "Finalizing transcript..."]>>

\* lines 188-189: one turn of the loop, in the thread started at line 195
TT_Stage(t) ==
    /\ tthread[t] \in 1..Len(Stages)
    /\ records' = UpdateProgress(records, task[t].video_id,
                                 Stages[tthread[t]].percent, Stages[tthread[t]].message)
    /\ tthread' = [tthread EXCEPT ![t] = @ + 1]
    /\ UNCHANGED <<max_concurrent_downloads, semaphore, download_queue, active_downloads,
                   download_progress, task, sd, dv, loop, ytdl, ui, cbMayRaise>>
    /\ mw' = HandleDownloadProgress(mw, download_progress[task[t].video_id], records',
                                       "_update_progress")

(* ------------------------------ queries ------------------------------- *)
\* the keys of download_progress
SubmittedIds == {i \in Ids : download_progress[i] # 0}

\* a dict keeps its keys in the order of their first insertion; tasks are
\* numbered in the order of their add_task calls
FirstAdder(id) ==
    CHOOSE t \in Tasks : /\ task[t].video_id = id
                         /\ \A u \in Tasks : task[u].video_id = id => t <= u

\* the values of the dict, newest key first
ProgressValuesNewestFirst ==
    LET n == Cardinality(SubmittedIds)
        order == CHOOSE f \in [1..n -> SubmittedIds] :
                    \A i, j \in 1..n : i < j => FirstAdder(f[i]) > FirstAdder(f[j])
    IN [k \in 1..n |-> download_progress[order[k]]]

\* self.download_progress.values(), line 373: the record objects of the dict,
\* by reference, in the order of the keys
ProgressValues ==
    LET n == Cardinality(SubmittedIds)
        order == CHOOSE f \in [1..n -> SubmittedIds] :
                    \A i, j \in 1..n : i < j => FirstAdder(f[i]) < FirstAdder(f[j])
    IN [k \in 1..n |-> download_progress[order[k]]]

\* the fields of the record objects a list refers to, as == compares them
FieldsOf(refs) == [k \in DOMAIN refs |-> records[refs[k]]]

\* get_all_progress, line 373: list(self.download_progress.values())
GetAllProgress == FieldsOf(ProgressValues)

\* get_progress, line 364: self.download_progress.get(video_id); None is the
\* empty sequence, a record object the one-element sequence of its reference
GetProgress(id) ==
    IF download_progress[id] = 0 THEN <<>> ELSE <<download_progress[id]>>

\* a caller on the presentation thread calls get_progress(id)
UI_GetProgress(id) ==
    /\ ui.pc = "idle"
    /\ ui' = [ui EXCEPT !.pc = "got_one", !.arg = id, !.got = GetProgress(id)]
    /\ UNCHANGED <<max_concurrent_downloads, semaphore, download_queue, active_downloads,
                   download_progress, records, task, sd, dv, loop, ytdl, tthread, cbMayRaise, mw>>

\* a caller on the presentation thread calls get_all_progress()
UI_GetAllProgress ==
    /\ ui.pc = "idle"
    /\ ui' = [ui EXCEPT !.pc = "got_all", !.got = ProgressValues]
    /\ UNCHANGED <<max_concurrent_downloads, semaphore, download_queue, active_downloads,
                   download_progress, records, task, sd, dv, loop, ytdl, tthread, cbMayRaise, mw>>

\* the caller keeps the first list and calls get_all_progress() again
UI_GetAllProgressAgain ==
    /\ ui.pc = "got_all"
    /\ ui' = [ui EXCEPT !.pc = "got_twice", !.prev = ui.got, !.got = ProgressValues]
    /\ UNCHANGED <<max_concurrent_downloads, semaphore, download_queue, active_downloads,
                   download_progress, records, task, sd, dv, loop, ytdl, tthread, cbMayRaise, mw>>

\* the caller drops what it was returned
UI_QueryReturn ==
    /\ ui.pc \in {"got_one", "got_all", "got_twice"}
    /\ ui' = [ui EXCEPT !.pc = "idle", !.arg = 0, !.got = <<>>, !.prev = <<>>]
    /\ UNCHANGED <<max_concurrent_downloads, semaphore, download_queue, active_downloads,
                   download_progress, records, task, sd, dv, loop, ytdl, tthread, cbMayRaise, mw>>

\* the words of a failure message
MessageWords(e) ==
    IF e = NoTranscriptError
    THEN <<"Failed", "to", "download", "transcript:", "No", "transcript", "was",
           "available", "for", "this", "video">>
    ELSE <<e>>

(* ------------------------ MainWindow handlers -------------------------- *)
\* All of them run on the presentation thread, one at a time. QMutex is not
\* recursive: a lock() by the thread that holds it never returns.

\* MainWindow.download_selected, lines 1193-1217: the counters are set for the
\* batch, the tasks submitted (DownloadSelected_AddTask, before this step) and
\* the executor thread is started; the mutex is locked and unlocked around
\* the counters with no call in between
MW_DownloadSelected ==
    /\ mw.attached
    /\ sd.pc = "idle"
    /\ ui.pc = "idle"
    /\ ui.added > 0
    /\ sd' = [sd EXCEPT !.pc = "iterate"]
    /\ mw' = [mw EXCEPT !.total_downloads = ui.added, !.completed_downloads = 0,
                        !.error_downloads = 0, !.canceled_downloads = 0]
    /\ UNCHANGED <<max_concurrent_downloads, semaphore, download_queue, active_downloads,
                   download_progress, records, task, dv, loop, ytdl, tthread, ui, cbMayRaise>>

\* DownloadItemWidget._update_progress_safe, download_item.py lines 136-256:
\* the flags and the cancel button of a widget, from the record as it is now
WidgetAfter(w, r) ==
    [w EXCEPT !.has_error = IF r.error # "None" THEN TRUE ELSE @,
              !.is_completed = IF r.error = "None" /\ r.is_complete THEN TRUE ELSE @,
              !.is_canceled = IF r.error = "None" /\ ~r.is_complete /\ r.status = "Canceled"
                              THEN TRUE ELSE @,
              !.cancel_visible = ~r.is_complete /\ r.status # "Canceled" /\ r.error = "None"]

\* _update_download_progress_ui, lines 1655-1716, for the record object r
\* taken from the queue; the fields are those the record has now.
\* widget.update_progress (download_item.py lines 120-134) only posts the
\* call of _update_progress_safe, so the flags read after it are the flags
\* read before it. A counter that is incremented is followed by
\* update_download_status, which locks the mutex (line 1235) that this
\* handler holds (lines 1667, 1700)
UpdateDownloadProgressUi(m, r) ==
    LET id == records[r].video_id
        was == m.widgets[id]
        posted == Append(m.posted, [id |-> id, ref |-> r])
    IN IF was.exists
       THEN LET now == m.widgets[id]
                completed == ~was.is_completed /\ now.is_completed
                error == ~completed /\ ~was.has_error /\ now.has_error
                canceled == ~completed /\ ~error /\ ~was.is_canceled /\ now.is_canceled
            IN [m EXCEPT !.posted = posted,
                         !.completed_downloads = IF completed THEN @ + 1 ELSE @,
                         !.error_downloads = IF error THEN @ + 1 ELSE @,
                         !.canceled_downloads = IF canceled THEN @ + 1 ELSE @,
                         !.download_mutex = IF completed \/ error \/ canceled
                                            THEN "held" ELSE "free"]
       ELSE LET completed == records[r].is_complete
                error == ~completed /\ records[r].error # "None"
                canceled == ~completed /\ ~error /\ records[r].status = "Canceled"
            IN [m EXCEPT !.posted = posted,
                         !.widgets[id] = [NoWidget EXCEPT !.exists = TRUE,
                                                          !.cancel_visible = TRUE,
                                                          !.cancel_enabled = TRUE],
                         !.completed_downloads = IF completed THEN @ + 1 ELSE @,
                         !.error_downloads = IF error THEN @ + 1 ELSE @,
                         !.canceled_downloads = IF canceled THEN @ + 1 ELSE @,
                         !.download_mutex = IF completed \/ error \/ canceled
                                            THEN "held" ELSE "free"]

\* process_progress_updates, lines 1637-1640: one turn of the loop that the
\* timer of line 134 starts; the loop goes on until it finds the queue empty
MW_ProcessProgressUpdate ==
    /\ mw.attached
    /\ sd.pc # "idle"
    /\ ui.pc \in {"idle", "process"}
    /\ mw.progress_queue # <<>>
    /\ LET m == UpdateDownloadProgressUi(
                    [mw EXCEPT !.progress_queue = Tail(@)], Head(mw.progress_queue).ref)
       IN /\ mw' = m
          /\ ui' = [ui EXCEPT !.pc = IF m.download_mutex = "held" THEN "deadlocked"
                                     ELSE IF m.progress_queue = <<>> THEN "idle"
                                     ELSE "process"]
    /\ UNCHANGED <<max_concurrent_downloads, semaphore, download_queue, active_downloads,
                   download_progress, records, task, sd, dv, loop, ytdl, tthread, cbMayRaise>>

\* the Qt event loop delivers a posted _update_progress_safe call
MW_UpdateProgressSafe ==
    /\ mw.attached
    /\ ui.pc = "idle"
    /\ mw.posted # <<>>
    /\ LET e == Head(mw.posted) IN
        mw' = [mw EXCEPT !.posted = Tail(@),
                         !.widgets[e.id] = IF @.exists THEN WidgetAfter(@, records[e.ref])
                                           ELSE @]
    /\ UNCHANGED <<max_concurrent_downloads, semaphore, download_queue, active_downloads,
                   download_progress, records, task, sd, dv, loop, ytdl, tthread, ui,
                   cbMayRaise>>

\* a click on the cancel button of a widget: DownloadItemWidget.cancel_download
\* (download_item.py lines 258-263) disables the button and calls
\* MainWindow.cancel_download, lines 1294-1310. For a widget with no flag up
\* the counter is incremented and update_download_status is called with the
\* mutex held (line 1305); otherwise the mutex is released and
\* DownloadManager.cancel_download is called
MW_CancelClick(id) ==
    /\ mw.attached
    /\ sd.pc # "idle"
    /\ ui.pc = "idle"
    /\ mw.widgets[id].exists
    /\ mw.widgets[id].cancel_visible /\ mw.widgets[id].cancel_enabled
    /\ LET w == mw.widgets[id]
           counted == ~w.is_completed /\ ~w.has_error /\ ~w.is_canceled
       IN /\ mw' = [mw EXCEPT !.widgets[id].cancel_enabled = FALSE,
                              !.canceled_downloads = IF counted THEN @ + 1 ELSE @,
                              !.download_mutex = IF counted THEN "held" ELSE "free"]
          /\ ui' = IF counted THEN [ui EXCEPT !.pc = "deadlocked"]
                   ELSE IF FirstQueued(id) # 0
                   THEN [ui EXCEPT !.pc = "cancel_mark", !.arg = id, !.branch = "queued"]
                   ELSE IF id \in active_downloads
                   THEN [ui EXCEPT !.pc = "cancel_mark", !.arg = id, !.branch = "active"]
                   ELSE [ui EXCEPT !.pc = "cancel_return", !.arg = id, !.ret = "False"]
          /\ download_queue' = IF ~counted /\ FirstQueued(id) # 0
                               THEN RemoveAt(download_queue, FirstQueued(id))
                               ELSE download_queue
    /\ UNCHANGED <<max_concurrent_downloads, semaphore, active_downloads,
                   download_progress, records, task, sd, dv, loop, ytdl, tthread, cbMayRaise>>

\* the widgets with a flag up
Finished(ws) == {i \in Ids : ws[i].exists /\ (ws[i].is_completed \/ ws[i].is_canceled
                                               \/ ws[i].has_error)}

\* clear_completed_downloads, lines 1312-1387: the widgets with a flag up are
\* taken from the list; with an empty list the counters are reset, otherwise
\* they are counted again from the widgets that remain and
\* update_download_status is called with the mutex held (line 1385)
MW_ClearCompleted ==
    /\ mw.attached
    /\ sd.pc # "idle"
    /\ ui.pc = "idle"
    /\ \E i \in Ids : mw.widgets[i].exists
    /\ LET remain == {i \in Ids : mw.widgets[i].exists} \ Finished(mw.widgets)
           ws == [i \in Ids |-> IF i \in remain THEN mw.widgets[i] ELSE NoWidget]
       IN /\ mw' = [mw EXCEPT !.widgets = ws,
                              !.total_downloads = Cardinality(remain),
                              !.completed_downloads = 0,
                              !.error_downloads = 0,
                              !.canceled_downloads = 0,
                              !.download_mutex = IF remain = {} THEN "free" ELSE "held"]
          /\ ui' = [ui EXCEPT !.pc = IF remain = {} THEN "idle" ELSE "deadlocked"]
    /\ UNCHANGED <<max_concurrent_downloads, semaphore, download_queue, active_downloads,
                   download_progress, records, task, sd, dv, loop, ytdl, tthread, cbMayRaise>>

(* --------------------------- specification ----------------------------- *)
Next ==
    \/ \E t \in Tasks, id \in Ids, kind \in Kinds : DownloadSelected_AddTask(t, id, kind)
    \/ UI_AddRecord
    \/ UI_AddCallback
    \/ \E id \in Ids : UI_CancelScan(id)
    \/ UI_CancelMark
    \/ UI_CancelReturn
    \/ SD_Start
    \/ SD_Iterate
    \/ SD_ClearAndGather
    \/ SD_Finish
    \/ \E t \in Tasks : DV_Begin(t)
    \/ \E t \in Tasks : DV_Acquire(t)
    \/ \E t \in Tasks : DV_Wake(t)
    \/ \E t \in Tasks : DV_Starting(t)
    \/ \E t \in Tasks : DV_Fetching(t)
    \/ \E t \in Tasks, outcome \in {"returned", "raised"}, wrote \in BOOLEAN :
            DV_Resume(t, outcome, wrote)
    \/ \E t \in Tasks : DV_Verify(t)
    \/ \E t \in Tasks : DV_Complete(t)
    \/ \E t \in Tasks : DV_Except(t)
    \/ \E t \in Tasks : DV_Finally(t)
    \/ \E t \in Tasks, d \in HookEvents : YT_Hook(t, d)
    \/ \E t \in Tasks : TT_Stage(t)

Spec == Init /\ [][Next]_vars

\* The manager as MainWindow constructs it (main_window.py line 124): its
\* callback, handle_download_progress, catches every exception and never raises
InitNominal == InitManager /\ cbMayRaise = FALSE /\ mw = Detached

SpecNominal == InitNominal /\ [][Next]_vars

\* A further batch is submitted (MainWindow.download_selected, line 1212) while
\* the run started for the first one is awaiting its coroutines or is over
LateAddTask(t, id, kind) ==
    /\ sd.pc \in {"gather", "returned", "raised"}
    /\ UI_AddTask(t, id, kind)

\* The manager of MainWindow with batches submitted before and after the
\* drain of start_downloads, and no cancel_download call
NextLateAdd ==
    \/ \E t \in Tasks, id \in Ids, kind \in Kinds : DownloadSelected_AddTask(t, id, kind)
    \/ \E t \in Tasks, id \in Ids, kind \in Kinds : LateAddTask(t, id, kind)
    \/ UI_AddRecord
    \/ UI_AddCallback
    \/ SD_Start
    \/ SD_Iterate
    \/ SD_ClearAndGather
    \/ SD_Finish
    \/ \E t \in Tasks : DV_Begin(t)
    \/ \E t \in Tasks : DV_Acquire(t)
    \/ \E t \in Tasks : DV_Wake(t)
    \/ \E t \in Tasks : DV_Starting(t)
    \/ \E t \in Tasks : DV_Fetching(t)
    \/ \E t \in Tasks, outcome \in {"returned", "raised"}, wrote \in BOOLEAN :
            DV_Resume(t, outcome, wrote)
    \/ \E t \in Tasks : DV_Verify(t)
    \/ \E t \in Tasks : DV_Complete(t)
    \/ \E t \in Tasks : DV_Except(t)
    \/ \E t \in Tasks : DV_Finally(t)
    \/ \E t \in Tasks, d \in HookEvents : YT_Hook(t, d)
    \/ \E t \in Tasks : TT_Stage(t)

SpecLateAdd == InitNominal /\ [][NextLateAdd]_vars

\* The steps of the executor thread, of the backend's worker threads and of the
\* synthetic-progress threads. The event loop runs a coroutine that is ready,
\* the operating system schedules a thread that can run, and a backend call
\* comes to its end (DV_Resume). The progress hooks are events the backend
\* may never fire: none is counted on
Running ==
    \/ SD_Iterate
    \/ SD_ClearAndGather
    \/ SD_Finish
    \/ \E t \in Tasks : DV_Begin(t)
    \/ \E t \in Tasks : DV_Acquire(t)
    \/ \E t \in Tasks : DV_Wake(t)
    \/ \E t \in Tasks : DV_Starting(t)
    \/ \E t \in Tasks : DV_Fetching(t)
    \/ \E t \in Tasks, outcome \in {"returned", "raised"}, wrote \in BOOLEAN :
            DV_Resume(t, outcome, wrote)
    \/ \E t \in Tasks : DV_Verify(t)
    \/ \E t \in Tasks : DV_Complete(t)
    \/ \E t \in Tasks : DV_Except(t)
    \/ \E t \in Tasks : DV_Finally(t)
    \/ \E t \in Tasks : TT_Stage(t)

\* the manager of MainWindow, with threads that keep running
SpecLive == InitNominal /\ [][Next]_vars /\ WF_vars(Running)

\* the manager with a caller of the two queries on the presentation thread
NextQuery ==
    \/ Next
    \/ \E id \in Ids : UI_GetProgress(id)
    \/ UI_GetAllProgress
    \/ UI_GetAllProgressAgain
    \/ UI_QueryReturn

SpecQuery == InitNominal /\ [][NextQuery]_vars

\* MainWindow with its manager: one download_selected, the executor thread,
\* the backend and the handlers of the presentation thread. A click on a
\* cancel button goes through MainWindow.cancel_download. The batch holds
\* MaxBatch tasks at most, so no task waits for a permit
InitBridge == InitManager /\ cbMayRaise = FALSE /\ mw = MainWindowInit

NextBridge ==
    \/ \E t \in 1..MaxBatch, id \in Ids, kind \in Kinds :
            DownloadSelected_AddTask(t, id, kind)
    \/ UI_AddRecord
    \/ UI_AddCallback
    \/ MW_DownloadSelected
    \/ MW_ProcessProgressUpdate
    \/ MW_UpdateProgressSafe
    \/ \E id \in Ids : MW_CancelClick(id)
    \/ MW_ClearCompleted
    \/ SD_Iterate
    \/ SD_ClearAndGather
    \/ SD_Finish
    \/ \E t \in Tasks : DV_Begin(t)
    \/ \E t \in Tasks : DV_Acquire(t)
    \/ \E t \in Tasks : DV_Starting(t)
    \/ \E t \in Tasks : DV_Fetching(t)
    \/ \E t \in Tasks, outcome \in {"returned", "raised"}, wrote \in BOOLEAN :
            DV_Resume(t, outcome, wrote)
    \/ \E t \in Tasks : DV_Verify(t)
    \/ \E t \in Tasks : DV_Complete(t)
    \/ \E t \in Tasks : DV_Except(t)
    \/ \E t \in Tasks : DV_Finally(t)
    \/ \E t \in Tasks, d \in HookEvents : YT_Hook(t, d)
    \/ \E t \in Tasks : TT_Stage(t)

SpecBridge == InitBridge /\ [][NextBridge]_vars

(* ---------------------- transcript verification ------------------------ *)
\* Lines 208-260 as a function of the base path, the id and the title of the
\* task and the files of the destination directory. A name is a sequence of
\* pieces: a letter, or a suffix such as ".vtt" or ".en"

\* line 210
possible_extensions == {".vtt", ".srt", ".ttml", ".sbv", ".srv3", ".srv2", ".srv1"}

\* line 229, with the dot of line 230
Languages == {".en", ".en-US", ".en-GB"}

\* str.lower() on a piece, and on a name (lines 249, 253)
LowerPiece(c) == CASE c = "A" -> "a" [] c = "B" -> "b" [] OTHER -> c

LowerName(n) == [k \in DOMAIN n |-> LowerPiece(n[k])]

\* w in n, for two strings
InName(w, n) == \E i \in 0..(Len(n) - Len(w)) : SubSeq(n, i + 1, i + Len(w)) = w

\* lines 228-241: base.lang.ext or base.ext exists
ProbeFound(base, files) ==
    \E ext \in possible_extensions :
        \/ \E lang \in Languages : (base \o <<lang, ext>>) \in files
        \/ (base \o <<ext>>) \in files

\* lines 246-257: the scan of the directory
ScanFound(id, title, files) ==
    \E f \in files :
        LET file_lower == LowerName(f) IN
        /\ \E ext \in possible_extensions : InName(<<ext>>, file_lower)
        /\ InName(id, file_lower) \/ InName(LowerName(title), file_lower)

\* lines 209-257: subtitle_found
SubtitleFound(base, id, title, files) ==
    ProbeFound(base, files) \/ ScanFound(id, title, files)

\* the names a file of the directory can have
FileNames ==
    {stem \o rest : stem \in {<<"a">>, <<"A">>, <<"b">>},
                    rest \in {<<".vtt">>, <<".en", ".vtt">>, <<".mp4">>, <<".vtt", ".mp4">>}}

\* a transcript task whose backend call has returned: its id, its title, the
\* base path and the directory, before line 208
InitVerify ==
    /\ max_concurrent_downloads = 1
    /\ semaphore = 0
    /\ download_queue = <<>>
    /\ active_downloads = {}
    /\ download_progress = [i \in Ids |-> 0]
    /\ records = [t \in Tasks |-> NoRecord]
    /\ task = [t \in Tasks |-> NoTask]
    /\ sd = [pc |-> "gather", idx |-> 0, tasks |-> <<>>]
    /\ \E id \in {<<"a">>, <<"A">>}, title \in {<<"b">>, <<"B">>} :
        \E files \in {F \in SUBSET FileNames : Cardinality(F) <= MaxFiles} :
            dv = [pc |-> "verify", video_id |-> id, title |-> title,
                  base_path |-> title, files |-> files, subtitle_found |-> FALSE]
    /\ loop = 1
    /\ ytdl = [t \in Tasks |-> [state |-> "idle", hooks |-> 0, subtitles |-> FALSE]]
    /\ tthread = [t \in Tasks |-> 0]
    /\ ui = [pc |-> "idle", arg |-> 0, branch |-> "none", ret |-> "None",
             added |-> 0, cancels |-> 0, reports |-> <<>>,
             got |-> <<>>, prev |-> <<>>]
    /\ cbMayRaise = FALSE
    /\ mw = Detached

\* lines 208-260: the verification, then line 260 when nothing was found
VerifyTranscript ==
    /\ dv.pc = "verify"
    /\ LET found == SubtitleFound(dv.base_path, dv.video_id, dv.title, dv.files) IN
        dv' = [dv EXCEPT !.subtitle_found = found,
                         !.pc = IF found THEN "complete" ELSE "except"]
    /\ UNCHANGED <<max_concurrent_downloads, semaphore, download_queue, active_downloads,
                   download_progress, records, task, sd, loop, ytdl, tthread, ui,
                   cbMayRaise, mw>>

SpecVerify == InitVerify /\ [][VerifyTranscript]_vars

(* ------------------------- derived notions ----------------------------- *)
Added(t) == task[t].video_id # 0

\* no other submitted task carries the id of t
UniqueId(t) == \A u \in Tasks \ {t} : task[u].video_id # task[t].video_id

Queued == {download_queue[i] : i \in 1..Len(download_queue)}

\* tasks that went through async with's entry and not yet through its exit
Holders == {t \in Tasks : dv[t].pc \in {"starting", "fetching", "transfer", "verify", "complete"}}

\* tasks whose coroutine has begun and not ended
Executing == {t \in Tasks : dv[t].pc \notin {"none", "ready", "done", "escaped"}}

Terminal(r) == r.is_complete \/ r.error # "None" \/ r.status = "Canceled"

(* ------------------------------ claims --------------------------------- *)
\* C1: at no time have more tasks acquired the gate without releasing it than
\* max_concurrent_downloads, nor does active_downloads hold more ids than that.
C1_PermitBound ==
    /\ Cardinality(Holders) <= max_concurrent_downloads
    /\ Cardinality(active_downloads) <= max_concurrent_downloads

\* a batch larger than the bound: the bound is reached and a task waits
C1_Witness ==
    /\ Len(sd.tasks) > max_concurrent_downloads
    /\ Cardinality(Holders) = max_concurrent_downloads
    /\ \E t \in Tasks : dv[t].pc = "waiting"

\* C2: start_downloads has returned, normally or by raising, only when every
\* task it drained has ended and its record is terminal.
C2_ReturnsWhenAllTerminal ==
    sd.pc \in {"returned", "raised"} =>
        \A t \in Drained :
            /\ dv[t].pc \in {"done", "escaped"}
            /\ Terminal(records[download_progress[task[t].video_id]])

\* C3: no fault of a task (here the exception of its progress callback) leaves
\* start_downloads.
C3_NoFaultEscapes ==
    ~(sd.pc = "raised" /\ \E t \in Drained : dv[t].pc = "escaped" /\ dv[t].exc = "callback")

\* C4: a callback failure leaves the record as a non-failing callback would: a
\* task whose transfer returned (and, for a transcript, left a subtitle file)
\* ends with done=true and no failure.
C4_CallbackFailureContained ==
    \A t \in Tasks :
        (/\ UniqueId(t)
         /\ dv[t].pc \in {"done", "escaped"}
         /\ ytdl[t].state = "returned"
         /\ task[t].download_type = "TRANSCRIPT" => ytdl[t].subtitles)
        => (records[t].is_complete /\ records[t].error = "None")

\* C5: once start_downloads has returned, and no cancel_download call was made,
\* the record of every video or audio task of the batch is terminal: failure is
\* set exactly for the tasks whose transfer raised, every other record has
\* done=true, percent 100 and status "Complete".
C5_BatchOutcome ==
    (sd.pc = "returned" /\ ui.cancels = 0) =>
        \A t \in Drained :
            (UniqueId(t) /\ task[t].download_type # "TRANSCRIPT") =>
                /\ ytdl[t].state \in {"returned", "raised"}
                /\ ytdl[t].state = "raised" =>
                     (records[t].error # "None" /\ ~records[t].is_complete)
                /\ ytdl[t].state = "returned" =>
                     (/\ records[t].error = "None"
                      /\ records[t].is_complete
                      /\ records[t].progress = 100
                      /\ records[t].status = "Complete")

\* a returned batch of two tasks, one transfer raised and the other did not,
\* with the bound below the batch size
C5_Witness ==
    /\ sd.pc = "returned"
    /\ ui.cancels = 0
    /\ max_concurrent_downloads < Len(sd.tasks)
    /\ \E t, u \in Drained :
        /\ task[t].video_id # task[u].video_id
        /\ task[t].download_type = "VIDEO" /\ task[u].download_type = "AUDIO"
        /\ ytdl[t].state = "raised" /\ ytdl[u].state = "returned"

\* C6: the permits out are those of the tasks between the entry and the exit of
\* async with, whatever path took them out; when no task is executing every
\* permit is free and active_downloads is empty.
C6_PermitsReleased ==
    /\ semaphore + Cardinality(Holders) = max_concurrent_downloads
    /\ Executing = {} => (semaphore = max_concurrent_downloads /\ active_downloads = {})

\* nothing executes any more after a task left through a raising completion
\* callback whose error report raised as well, and after a failed verification
C6_Witness ==
    /\ Executing = {}
    /\ \E t, u \in Tasks :
        /\ dv[t].pc = "escaped" /\ ytdl[t].state = "returned"
        /\ dv[u].pc = "done" /\ dv[u].progress # 0
        /\ records[dv[u].progress].error = NoTranscriptError

\* what cancel_download leaves of a record that add_task made
CanceledRecord(t) ==
    [DownloadProgress(task[t].video_id, task[t].title) EXCEPT !.status = "Canceled"]

\* cancel_download(id) is returning from the branch that found task t, the only
\* task of that id, in the queue, before start_downloads ran
PendingCancelReturns(t) ==
    /\ ui.pc = "cancel_return" /\ ui.branch = "queued" /\ ui.arg = task[t].video_id
    /\ sd.pc = "idle"
    /\ UniqueId(t)

NeverExecuted(t) ==
    /\ t \notin Queued
    /\ dv[t].pc = "none"
    /\ ytdl[t].state = "idle"
    /\ task[t].video_id \notin active_downloads
    /\ records[t] = CanceledRecord(t)

\* C7: cancel_download(id) of a task still in the queue returns True, has taken
\* the task out of the queue and set the status to "Canceled" with percent, done
\* and failure as they were; from then on (while no other task is submitted
\* under that id) the task is never executed and its record stays as it is.
C7_PendingCancel ==
    \A t \in Tasks :
        [](PendingCancelReturns(t) =>
              (ui.ret = "True" /\ [](UniqueId(t) => NeverExecuted(t))))

\* a task was cancelled in the queue, and start_downloads has since run another
\* task to its end and returned
C7_Witness ==
    /\ sd.pc = "returned"
    /\ \E t, u \in Tasks :
        /\ UniqueId(t) /\ Added(t) /\ NeverExecuted(t)
        /\ dv[u].pc = "done"

\* C8: cancel_download of an executing task returns True, and the task's final
\* status is its outcome: once the task has ended and the call has returned,
\* the status does not remain "Canceling". ("Canceled" is written by the queue
\* branch only, line 391, never by the branch this claim is about.)
C8_FinalStatusIsOutcome ==
    /\ (ui.pc = "cancel_return" /\ ui.branch = "active") => ui.ret = "True"
    /\ \A t \in Tasks :
        (UniqueId(t) /\ dv[t].pc \in {"done", "escaped"} /\ ui.pc = "idle")
        => records[t].status # "Canceling"

\* C9: no step changes a field of a record that is terminal.
C9_TerminalIsFinal ==
    [][\A t \in Tasks : Terminal(records[t]) => records'[t] = records[t]]_vars

\* C10: the three terminal conditions exclude each other.
C10_TerminalExclusive ==
    \A t \in Tasks :
        /\ ~(records[t].is_complete /\ records[t].error # "None")
        /\ records[t].status = "Canceled" =>
              (~records[t].is_complete /\ records[t].error = "None")

\* C11: of the tasks submitted under one id, start_downloads executes at most
\* one: no two of them have a transfer handed to the backend.
C11_OneTransferPerId ==
    \A t, u \in Tasks :
        (t # u /\ Added(t) /\ Added(u) /\ task[t].video_id = task[u].video_id)
        => ~(ytdl[t].state # "idle" /\ ytdl[u].state # "idle")

\* the last task submitted under the id of t
LastAdder(t) ==
    CHOOSE u \in Tasks : /\ task[u].video_id = task[t].video_id
                         /\ \A v \in Tasks : task[v].video_id = task[u].video_id => v <= u

\* add_task has returned for every task submitted so far, and neither
\* start_downloads nor cancel_download has been called
OnlyAdded == ui.pc = "idle" /\ sd.pc = "idle" /\ ui.cancels = 0

\* C12: after add_task calls for tasks sharing an id, the id maps to one
\* record, that of the task added last, with its title, percent 0 and status
\* "Waiting"; get_all_progress has one entry for the id.
C12_LaterRecordWins ==
    OnlyAdded =>
        \A t \in Tasks :
            Added(t) =>
                /\ download_progress[task[t].video_id] = LastAdder(t)
                /\ records[LastAdder(t)] =
                       DownloadProgress(task[t].video_id, task[LastAdder(t)].title)
                /\ Cardinality({k \in 1..Len(GetAllProgress) :
                                   GetAllProgress[k].video_id = task[t].video_id}) = 1

\* two tasks were submitted under one id
C12_Witness ==
    /\ OnlyAdded
    /\ \E t, u \in Tasks : t < u /\ Added(t) /\ Added(u) /\ task[t].video_id = task[u].video_id

\* C13: start_downloads takes exactly the tasks that are in the queue when it
\* runs and leaves the queue empty; each task taken is scheduled once and, when
\* the run has returned, has been executed to its end; a task added after the
\* drain stays in the queue and is not executed by this run.
C13_DrainTakesQueue ==
    /\ sd.pc = "clear" => sd.tasks = download_queue
    /\ sd.pc \in {"gather", "returned", "raised"} =>
        /\ \A i, j \in 1..Len(sd.tasks) : sd.tasks[i] = sd.tasks[j] => i = j
        /\ \A t \in Tasks :
            Added(t) =>
                IF t \in Drained
                THEN /\ t \notin Queued
                     /\ dv[t].pc # "none"
                     /\ sd.pc = "returned" => dv[t].pc = "done"
                ELSE /\ t \in Queued
                     /\ dv[t].pc = "none"
                     /\ ytdl[t].state = "idle"
                     /\ task[t].video_id \in active_downloads
                            => \E u \in Drained : task[u].video_id = task[t].video_id

\* the run of a first task has returned and a task added after the drain waits
\* in the queue
C13_Witness ==
    /\ sd.pc = "returned"
    /\ ui.pc = "idle"
    /\ \E t, u \in Tasks :
        /\ t \in Drained /\ dv[t].pc = "done"
        /\ Added(u) /\ u \notin Drained /\ download_queue = <<u>>

\* a step of an add_task call
AddTaskStep ==
    /\ ui' # ui
    /\ ui.pc \in {"add_record", "add_callback"} \/ ui'.pc = "add_record"

\* C14: add_task appends the task to the queue, maps its id to a fresh record
\* (title of the task, percent 0, "Waiting", not done, no failure) and invokes
\* the callback exactly once, with that record, before it returns; successive
\* calls queue the tasks in call order; no step of add_task touches the
\* permits, active_downloads, a coroutine or the backend.
C14_AddTask ==
    /\ [](ui.pc = "add_callback" =>
            /\ download_queue[Len(download_queue)] = ui.arg
            /\ download_progress[task[ui.arg].video_id] = ui.arg
            /\ records[ui.arg] = DownloadProgress(task[ui.arg].video_id, task[ui.arg].title)
            /\ ui.reports = <<>>)
    /\ []((ui.pc = "idle" /\ ui.added > 0) =>
            ui.reports = <<DownloadProgress(task[ui.added].video_id, task[ui.added].title)>>)
    /\ [](OnlyAdded => download_queue = [k \in 1..ui.added |-> k])
    /\ [][AddTaskStep => UNCHANGED <<semaphore, active_downloads, sd, dv, loop, ytdl, tthread>>]_vars

\* add_tasks has returned for a list of two tasks
C14_Witness ==
    /\ OnlyAdded
    /\ ui.added = 2
    /\ Len(ui.reports) = 1
    /\ download_queue = <<1, 2>>

\* transcript task t, the only task of its id, has ended after a backend call
\* that returned and left no subtitle file to find; its synthetic-progress
\* thread has ended too and no cancel_download call was made
NoTranscriptFinal(t) ==
    /\ UniqueId(t)
    /\ task[t].download_type = "TRANSCRIPT"
    /\ ytdl[t].state = "returned" /\ ~ytdl[t].subtitles
    /\ dv[t].pc \in {"done", "escaped"}
    /\ tthread[t] > Len(Stages)
    /\ ui.cancels = 0

\* C15: the final record of a transcript task whose backend call returned but
\* left no subtitle file has failure set to a message containing "no
\* transcript" (whatever the letter case), status "Error" and done=false.
C15_NoTranscriptIsFailure ==
    LET Lower(w) == CASE w = "Failed" -> "failed" [] w = "No" -> "no" [] OTHER -> w
        Contains(seq, sub) ==
            \E i \in 0..(Len(seq) - Len(sub)) : \A k \in 1..Len(sub) : seq[i + k] = sub[k]
        Folded(e) == [k \in 1..Len(MessageWords(e)) |-> Lower(MessageWords(e)[k])]
    IN \A t \in Tasks :
        NoTranscriptFinal(t) =>
            /\ Contains(Folded(records[t].error), <<"no", "transcript">>)
            /\ records[t].status = "Error"
            /\ ~records[t].is_complete

\* C16: a start_downloads that has begun eventually returns, with every task
\* it took ended and its record terminal; a task waiting for a permit
\* eventually stops waiting.
C16_BatchTerminates ==
    /\ (sd.pc # "idle") ~>
            (/\ sd.pc = "returned"
             /\ \A t \in Drained :
                    dv[t].pc = "done" /\ Terminal(records[dv[t].progress]))
    /\ \A t \in Tasks : (dv[t].pc = "waiting") ~> (dv[t].pc # "waiting")

\* a batch of two under bound 1 has returned; the transfer of one task raised
\* and the other task, which had to wait for the permit, completed
C16_Witness ==
    /\ sd.pc = "returned"
    /\ max_concurrent_downloads = 1
    /\ \E t, u \in Drained :
        /\ task[t].video_id # task[u].video_id
        /\ ytdl[t].state = "raised" /\ records[t].error # "None"
        /\ records[u].is_complete

\* C17: from its Starting report (10) on, no step lowers the percent of the
\* record of a video or audio task that is the only task of its id.
C17_PercentMonotone ==
    [][\A t \in Tasks :
          (/\ UniqueId(t)
           /\ task[t].download_type # "TRANSCRIPT"
           /\ dv[t].pc \in {"transfer", "complete", "finally", "done"}
           /\ records[t].progress >= 10)
          => records'[t].progress >= records[t].progress]_vars

\* C18: the percent of every record lies in 0..100.
C18_PercentInRange ==
    \A t \in Tasks : records[t].progress >= 0 /\ records[t].progress <= 100

\* C19: get_progress and get_all_progress are read-only (queue, active set,
\* permits, dict and records stay as they are); the list get_all_progress
\* returns has one entry per submitted id, in submission order, and a second
\* call returns an equal list; get_progress(id) is None exactly for an id that
\* was never submitted.
QueryStep ==
    \/ ui.pc = "idle" /\ ui'.pc \in {"got_one", "got_all"}
    \/ ui.pc = "got_all" /\ ui'.pc = "got_twice"

Submitted(id) == \E t \in 1..ui.added : task[t].video_id = id

C19_QueriesReadOnly ==
    /\ [](ui.pc \in {"got_all", "got_twice"} =>
            /\ Len(ui.got) = Cardinality({id \in Ids : Submitted(id)})
            /\ \A id \in Ids : Submitted(id) =>
                  \E k \in 1..Len(ui.got) : records[ui.got[k]].video_id = id
            /\ \A j, k \in 1..Len(ui.got) : j < k =>
                  FirstAdder(records[ui.got[j]].video_id)
                      < FirstAdder(records[ui.got[k]].video_id))
    /\ [](ui.pc = "got_twice" => FieldsOf(ui.prev) = FieldsOf(ui.got))
    /\ [](ui.pc = "got_one" => ((ui.got = <<>>) <=> ~Submitted(ui.arg)))
    /\ [][QueryStep => UNCHANGED <<download_queue, active_downloads, semaphore,
                                   download_progress, records, task>>]_vars

C19_Witness ==
    /\ ui.pc = "got_twice"
    /\ Len(ui.got) = 2
    /\ \E t \in Tasks : dv[t].pc = "transfer" /\ records[t].progress > 10

\* C20: a video or audio task is reported as "Downloading" only once its
\* start has been reported and only while it holds a permit: a task whose
\* coroutine has made its first report and whose record reads "Downloading"
\* is between the acquisition and the release of its permit.
C20_DownloadingUnderPermit ==
    \A t \in Tasks :
        (/\ UniqueId(t)
         /\ task[t].download_type # "TRANSCRIPT"
         /\ dv[t].pc \notin {"none", "escaped"}
         /\ dv[t].progress = t
         /\ records[t].status = "Downloading") => t \in Holders

\* C21: for a transcript task no synthetic stage (40, 60, 80) is applied once
\* the Verifying update (90) or the terminal report has been made: from the
\* Verifying update on, the synthetic-progress thread takes no step and the
\* percent of the record does not decrease.
C21_StagesBeforeVerifying ==
    [][\A t \in Tasks :
          (/\ UniqueId(t)
           /\ task[t].download_type = "TRANSCRIPT"
           /\ \/ dv[t].pc \in {"complete", "finally", "done"}
              \/ dv[t].pc = "except" /\ dv[t].exc = NoTranscriptError
           /\ dv[t].progress = t)
          => /\ tthread'[t] = tthread[t]
             /\ records'[t].progress >= records[t].progress]_vars

\* C22: the failure of a task whose transfer raises is reported through the
\* progress callback once: when the handler of the task boundary records the
\* exception and reports it, no earlier delivery for the id has carried a
\* set failure.
C22_FailureReportedOnce ==
    [][\A t \in Tasks :
          (/\ UniqueId(t)
           /\ dv[t].pc = "except" /\ dv[t].exc = "transfer"
           /\ dv'[t].pc = "finally"
           /\ records'[t].error # "None")
          => records[t].error = "None"]_vars

\* C23: a 'downloading' hook event that carries neither a positive total_bytes
\* nor a positive total_bytes_estimate (missing, zero or None) leaves percent,
\* done and failure of the record as they are, changes no other record, sets
\* the status text, and hands the record to the progress callback once; every
\* hook event is followed by one callback.
C23_NoTotalKeepsPercent ==
    [][\A t \in Tasks :
          ytdl'[t].hooks = ytdl[t].hooks + 1 =>
            LET r == download_progress[task[t].video_id]
                q == mw.progress_queue
                e == mw'.progress_queue[Len(q) + 1]
            IN /\ r # 0
               /\ Len(mw'.progress_queue) = Len(q) + 1
               /\ \A k \in 1..Len(q) : mw'.progress_queue[k] = q[k]
               /\ e.ref = r /\ e.emitted = records'[r]
               /\ e.by = "no total" =>
                    /\ records'[r].progress = records[r].progress
                    /\ records'[r].is_complete = records[r].is_complete
                    /\ records'[r].error = records[r].error
                    /\ records'[r].status \in {"Downloading (%)", "Downloading..."}
                    /\ \A u \in Tasks \ {r} : records'[u] = records[u]]_vars

C23_Witness ==
    \E k \in 1..Len(mw.progress_queue) :
        LET e == mw.progress_queue[k] IN
        /\ e.by = "no total"
        /\ e.emitted.status = "Downloading..."
        /\ e.emitted.progress = 10
        /\ ytdl[e.ref].hooks = 1

\* C24: the verification reports 'found' whenever a probed path
\* (base.lang.ext or base.ext) exists, or the directory holds a file with a
\* subtitle extension whose name contains the id or the title of the task,
\* whatever the letter case of the id and the title.
C24_FoundWhenPresent ==
    dv.pc \in {"complete", "except"} =>
        LET probed == \E ext \in possible_extensions :
                        \/ \E lang \in Languages :
                              (dv.base_path \o <<lang, ext>>) \in dv.files
                        \/ (dv.base_path \o <<ext>>) \in dv.files
            scanned == \E f \in dv.files :
                        /\ LowerPiece(f[Len(f)]) \in possible_extensions
                        /\ \/ InName(LowerName(dv.video_id), LowerName(f))
                           \/ InName(LowerName(dv.title), LowerName(f))
        IN (probed \/ scanned) => dv.subtitle_found


\* ---------------------------------------------------------------------------
\* add_task on the UI thread while start_downloads runs on the executor thread
\* ---------------------------------------------------------------------------

\* MainWindow.download_selected, line 1212, called again while the executor
\* thread of the batch before is inside start_downloads (lines 337-351): the
\* list iterator of line 337 reads by index, so an append during the loop is
\* still swept, an append after the loop's last read is not
RacingAddTask(t, id, kind) ==
    /\ sd.pc \in {"iterate", "clear"}
    /\ UI_AddTask(t, id, kind)

\* MainWindow.download_selected, lines 1185-1217: the executor thread is started
\* after the batch, which is not empty, was submitted
BatchStart ==
    /\ download_queue # <<>>
    /\ SD_Start

NextRaceAdd ==
    \/ \E t \in Tasks, id \in Ids, kind \in Kinds : DownloadSelected_AddTask(t, id, kind)
    \/ \E t \in Tasks, id \in Ids, kind \in Kinds : RacingAddTask(t, id, kind)
    \/ UI_AddRecord
    \/ UI_AddCallback
    \/ BatchStart
    \/ SD_Iterate
    \/ SD_ClearAndGather
    \/ SD_Finish
    \/ \E t \in Tasks : DV_Begin(t)
    \/ \E t \in Tasks : DV_Acquire(t)
    \/ \E t \in Tasks : DV_Wake(t)
    \/ \E t \in Tasks : DV_Starting(t)
    \/ \E t \in Tasks : DV_Fetching(t)
    \/ \E t \in Tasks, outcome \in {"returned", "raised"}, wrote \in BOOLEAN :
            DV_Resume(t, outcome, wrote)
    \/ \E t \in Tasks : DV_Verify(t)
    \/ \E t \in Tasks : DV_Complete(t)
    \/ \E t \in Tasks : DV_Except(t)
    \/ \E t \in Tasks : DV_Finally(t)
    \/ \E t \in Tasks, d \in HookEvents : YT_Hook(t, d)
    \/ \E t \in Tasks : TT_Stage(t)

SpecRaceAdd == InitNominal /\ [][NextRaceAdd]_vars

\* C25: no submitted task is lost: with add_task running concurrently with
\* start_downloads, every task appended to the queue is still in the queue, or
\* was taken by the run of start_downloads (and is executed by it), or was
\* removed by cancel_download; none leaves the queue unexecuted
C25_NoTaskLost ==
    \A t \in Tasks :
        Added(t) =>
            \/ t \in Queued
            \/ t \in Drained
            \/ dv[t].pc # "none"
            \/ records[t].status = "Canceled"


\* C26: cancel_download(id) returns False, changing nothing, only when the id
\* was never submitted or its record is already terminal; a submitted task that
\* is not terminal, also one drained by start_downloads and waiting behind the
\* gate, gets True
C26_CancelRefusesOnlyTerminal ==
    [][(ui.pc = "idle" /\ ui'.pc = "cancel_return" /\ ui'.ret = "False") =>
            \/ download_progress[ui'.arg] = 0
            \/ Terminal(records[download_progress[ui'.arg]])]_vars


\* C27: active_downloads is the set of ids of the tasks that hold a permit: an
\* id enters when its task acquires the gate and stays until that same task
\* has finished (its finally clause, line 279, ran), so a task that is still
\* inside the gate is found by cancel_download, also when another task with
\* the same id finishes first
C27_ActiveIsHolders ==
    /\ \A t \in Holders : task[t].video_id \in active_downloads
    /\ \A id \in active_downloads :
        \E t \in Tasks : /\ task[t].video_id = id
                         /\ t \in Holders \/ dv[t].pc \in {"except", "finally"}


\* C28: a progress event keeps the value it was emitted with: when
\* process_progress_updates takes an event from the queue, the percent, status,
\* done flag and failure it reads are those the record had when the manager
\* invoked the callback, whatever the executor wrote in between
C28_EventKeepsValue ==
    [][(mw.attached /\ mw'.attached
            /\ Len(mw'.progress_queue) < Len(mw.progress_queue)) =>
        LET e == Head(mw.progress_queue)
            read == records[e.ref]
        IN /\ read.progress = e.emitted.progress
           /\ read.status = e.emitted.status
           /\ read.is_complete = e.emitted.is_complete
           /\ read.error = e.emitted.error]_vars

\* C29: no handler of MainWindow reaches update_download_status, which locks
\* download_mutex, while the UI thread holds that non-recursive mutex: the UI
\* thread never blocks on its own lock
C29_NoSelfDeadlock ==
    mw.attached => ~(mw.download_mutex = "held" /\ ui.pc = "deadlocked")

\* C30: the counters count every task once: completed + error + canceled never
\* exceeds total_downloads, and once the batch has ended, every task is
\* terminal and no progress event and no widget update is pending, the sum
\* equals total_downloads. Stated for the states in which the UI thread is not
\* blocked on download_mutex (C29)
C30_CountersAddUp ==
    (mw.attached /\ ui.pc # "deadlocked") =>
        LET sum == mw.completed_downloads + mw.error_downloads + mw.canceled_downloads
        IN /\ sum <= mw.total_downloads
           /\ ( /\ sd.pc \in {"returned", "raised"}
                /\ ui.pc = "idle"
                /\ \A t \in Tasks : Added(t) => Terminal(records[t])
                /\ mw.progress_queue = <<>>
                /\ mw.posted = <<>> )
              => sum = mw.total_downloads

====
